---- MODULE Spec2Model ----
(***************************************************************************)
(* A model of llvm_installer: the release-tag parser (ParsedTag), the      *)
(* release catalog (LlvmPackageCollection), the version selector and the   *)
(* URL builder (LlvmInstaller).                                            *)
(*                                                                         *)
(* A Python str is a sequence of one-character strings, so that the        *)
(* regular expressions, split, startswith, slicing and int() are computed  *)
(* character by character.  None is the value None below; an attribute     *)
(* that was never set on an object is Unset.  An Optional[int] is <<>>     *)
(* for None and <<n>> for the integer n.                                   *)
(***************************************************************************)
EXTENDS Integers, Sequences, FiniteSets, TLC

VARIABLES
    tag_in,      \* the string handed to ParsedTag.from_tag
    parsed,      \* the outcome of ParsedTag.from_tag(tag_in)
    dict,        \* the outcome of parsed.as_dict()
    reparsed,    \* the outcome of the last ParsedTag.from_dict
    releases,    \* the release tag names the tag-refresh script reads
    os_compat,   \* the answers of sys_detection.is_compatible_os
    tags_file,   \* the contents of release_tags.json
    installer,   \* the LlvmInstaller object
    last,        \* the outcome of the last catalog / installer call
    _instance,   \* LlvmPackageCollection._instance
    pc,          \* each thread's position in get_instance
    local_tags,  \* each thread's local parsed_tags list
    ret,         \* what each thread's get_instance call returned
    loads,       \* how many times release_tags.json has been opened and read
    flag_file,   \* per install directory: .llvm_installation_finished exists
    extraction,  \* per install directory: the state of the latest tar run into it
    downloads,   \* the downloaded archives present in the install parent directory
    run          \* the current (or last) run of install(): position, arguments, calls made

vars == <<tag_in, parsed, dict, reparsed, releases, os_compat, tags_file,
          installer, last, _instance, pc, local_tags, ret, loads,
          flag_file, extraction, downloads, run>>

parse_vars == <<tag_in, parsed, dict, reparsed>>
catalog_vars == <<releases, os_compat, tags_file, installer, last>>
singleton_vars == <<_instance, pc, local_tags, ret, loads>>
install_vars == <<flag_file, extraction, downloads, run>>

\* install() has never been called
NoRun == [pc |-> "idle", once |-> FALSE, install_dir |-> <<>>, found |-> FALSE,
          steps |-> <<>>, outcome |-> "none"]

IdleInstall ==
    /\ flag_file = <<>>
    /\ extraction = <<>>
    /\ downloads = {}
    /\ run = NoRun

(***************************************************************************)
(* Characters and strings                                                  *)
(***************************************************************************)
None == <<"None">>
Unset == <<"Unset">>

Digits == {"0", "1", "2", "3", "4", "5", "6", "7", "8", "9"}
LowerLetters == {"a", "b", "c", "d", "e", "f", "g", "h", "i", "j", "k", "l", "m",
                 "n", "o", "p", "q", "r", "s", "t", "u", "v", "w", "x", "y", "z"}
\* [0-9.]
VersionChars == Digits \cup {"."}
\* [a-z0-9-]
SuffixChars == LowerLetters \cup Digits \cup {"-"}
\* [0-9a-f]
HexChars == Digits \cup {"a", "b", "c", "d", "e", "f"}

AllIn(s, C) == \A i \in 1..Len(s) : s[i] \in C

DigitVal(c) ==
    CASE c = "0" -> 0 [] c = "1" -> 1 [] c = "2" -> 2 [] c = "3" -> 3 [] c = "4" -> 4
      [] c = "5" -> 5 [] c = "6" -> 6 [] c = "7" -> 7 [] c = "8" -> 8 [] c = "9" -> 9

RECURSIVE DecimalValue(_)
DecimalValue(s) ==
    IF s = <<>> THEN 0
    ELSE 10 * DecimalValue(SubSeq(s, 1, Len(s) - 1)) + DigitVal(s[Len(s)])

\* int(s) raises ValueError unless s is an optional sign followed by digits.
int_ok(s) ==
    \/ Len(s) >= 1 /\ AllIn(s, Digits)
    \/ Len(s) >= 2 /\ s[1] = "-" /\ AllIn(Tail(s), Digits)

int(s) == IF s[1] = "-" THEN 0 - DecimalValue(Tail(s)) ELSE DecimalValue(s)

\* s.split(sep) for a one-character separator
RECURSIVE split(_, _)
split(s, sep) ==
    IF \A i \in 1..Len(s) : s[i] # sep THEN <<s>>
    ELSE LET k == CHOOSE i \in 1..Len(s) :
                      s[i] = sep /\ \A j \in 1..(i - 1) : s[j] # sep
         IN  <<SubSeq(s, 1, k - 1)>> \o split(SubSeq(s, k + 1, Len(s)), sep)

startswith(s, p) == Len(s) >= Len(p) /\ SubSeq(s, 1, Len(p)) = p

endswith(s, p) == Len(s) >= Len(p) /\ SubSeq(s, Len(s) - Len(p) + 1, Len(s)) = p

\* The last position of the longest run of characters of C that starts at i
\* (i - 1 when s[i] is not in C): a greedy C* at position i.
RECURSIVE RunEnd(_, _, _)
RunEnd(s, i, C) ==
    IF i <= Len(s) /\ s[i] \in C THEN RunEnd(s, i + 1, C) ELSE i - 1

Max(S) == CHOOSE x \in S : \A y \in S : y <= x

(***************************************************************************)
(* The tag grammar                                                         *)
(***************************************************************************)
ARCH_RE_STR == {<<"x", "8", "6", "_", "6", "4">>,
                <<"a", "a", "r", "c", "h", "6", "4">>,
                <<"a", "r", "m", "6", "4">>}

\* The short OS names of sys_detection.SHORT_OS_NAME_REGEX_STR that the model uses.
SHORT_OS_NAME_REGEX_STR == {<<"c", "e", "n", "t", "o", "s">>,
                            <<"u", "b", "u", "n", "t", "u">>,
                            <<"a", "l", "m", "a", "l", "i", "n", "u", "x">>,
                            <<"a", "m", "z", "n">>}

DEFAULT_SHORT_OS_NAME_AND_VERSION_FOR_OLD_BUILDS == <<"c", "e", "n", "t", "o", "s", "7">>
DEFAULT_ARCHITECTURE_FOR_OLD_BUILDS == <<"x", "8", "6", "_", "6", "4">>

TAG_RE_GROUP_KEYS == {"version", "version_suffix", "timestamp", "sha1_prefix",
                      "short_os_name_and_version", "architecture"}

ATTR_NAMES == TAG_RE_GROUP_KEYS \cup
    {"tag", "major_version", "minor_version", "patch_version", "yb_suffix_version",
     "is_old_tag_without_os_and_arch"}

\* The pattern's "$": the end of the string, or just before a final newline.
AtDollar(s, e) == e = Len(s) \/ (e = Len(s) - 1 /\ s[Len(s)] = "\n")

\* -(?P<timestamp>\d+)-(?P<sha1_prefix>[0-9a-f]+) at position p.  Neither run can
\* be shortened by backtracking: what follows each is "-" or nothing.
CoreAt(s, p) ==
    LET t == RunEnd(s, p + 1, Digits)
        h == RunEnd(s, t + 2, HexChars)
    IN  IF /\ p <= Len(s) /\ s[p] = "-" /\ t >= p + 1
           /\ t + 1 <= Len(s) /\ s[t + 1] = "-" /\ h >= t + 2
        THEN [matched |-> TRUE, timestamp |-> SubSeq(s, p + 1, t),
              sha1_prefix |-> SubSeq(s, t + 2, h), end |-> h]
        ELSE [matched |-> FALSE, timestamp |-> <<>>, sha1_prefix |-> <<>>, end |-> 0]

\* -(?P<short_os_name_and_version>(?:names)[0-9.]*)-(?P<architecture>archs)$ at p
OsArchAt(s, p) ==
    LET q == RunEnd(s, p + 1, LowerLetters \cup VersionChars)
        os == SubSeq(s, p + 1, q)
        rest == SubSeq(s, q + 2, Len(s))
    IN  IF /\ p <= Len(s) /\ s[p] = "-"
           /\ \E n \in SHORT_OS_NAME_REGEX_STR :
                  startswith(os, n) /\ AllIn(SubSeq(os, Len(n) + 1, Len(os)), VersionChars)
           /\ q + 1 <= Len(s) /\ s[q + 1] = "-"
           /\ \E a \in ARCH_RE_STR : startswith(rest, a) /\ AtDollar(rest, Len(a))
        THEN [matched |-> TRUE, short_os_name_and_version |-> os,
              architecture |-> CHOOSE a \in ARCH_RE_STR :
                                   startswith(rest, a) /\ AtDollar(rest, Len(a))]
        ELSE [matched |-> FALSE, short_os_name_and_version |-> <<>>,
              architecture |-> <<>>]

\* re.match of the tag pattern, with (full) or without the OS and architecture
\* components and the "$".  Python tries the optional suffix group first, its
\* longest candidate first, and only then the pattern without the group.
TagMatch(s, full) ==
    LET v == RunEnd(s, 2, VersionChars)
        OkAt(p) == LET c == CoreAt(s, p)
                   IN  c.matched /\ (full => OsArchAt(s, c.end + 1).matched)
        sufEnds == {e \in (v + 2)..Len(s) :
                        /\ s[v + 1] = "-"
                        /\ AllIn(SubSeq(s, v + 2, e), SuffixChars)
                        /\ OkAt(e + 1)}
        Groups(suffix, p) ==
            LET c == CoreAt(s, p)
                oa == OsArchAt(s, c.end + 1)
            IN  [matched |-> TRUE,
                 version |-> SubSeq(s, 2, v),
                 version_suffix |-> suffix,
                 timestamp |-> c.timestamp,
                 sha1_prefix |-> c.sha1_prefix,
                 short_os_name_and_version |->
                     IF full THEN oa.short_os_name_and_version ELSE Unset,
                 architecture |-> IF full THEN oa.architecture ELSE Unset]
    IN  IF Len(s) >= 1 /\ s[1] = "v" /\ v >= 2 /\ sufEnds # {}
        THEN Groups(SubSeq(s, v + 2, Max(sufEnds)), Max(sufEnds) + 1)
        ELSE IF Len(s) >= 1 /\ s[1] = "v" /\ v >= 2 /\ OkAt(v + 1)
        THEN Groups(None, v + 1)
        ELSE [matched |-> FALSE, version |-> Unset, version_suffix |-> Unset,
              timestamp |-> Unset, sha1_prefix |-> Unset,
              short_os_name_and_version |-> Unset, architecture |-> Unset]

TAG_RE(s) == TagMatch(s, TRUE)

TAG_RE_WITHOUT_OS_AND_ARCH(s) == TagMatch(s, FALSE)

(***************************************************************************)
(* ParsedTag                                                               *)
(***************************************************************************)
Raise(exception) == [kind |-> exception, value |-> <<>>]
Return(v) == [kind |-> "ok", value |-> v]

yb == <<"y", "b", "-">>

\* A variant of os_and_arch_after_init that leaves the attributes as the match set
\* them, also for an old tag.
os_and_arch_as_matched(self, is_old_tag_without_os_and_arch) ==
    <<self.short_os_name_and_version, self.architecture>>

\* The OS/version and the architecture finish_init leaves on the object: the
\* defaults for an old tag, the attributes already set otherwise.
os_and_arch_after_init(self, is_old_tag_without_os_and_arch) ==
    IF is_old_tag_without_os_and_arch
    THEN <<DEFAULT_SHORT_OS_NAME_AND_VERSION_FOR_OLD_BUILDS,
           DEFAULT_ARCHITECTURE_FOR_OLD_BUILDS>>
    ELSE <<self.short_os_name_and_version, self.architecture>>

\* self carries tag and the six group attributes; the result is the finished
\* object, or the exception the first failing statement raises.
finish_init(self, is_old_tag_without_os_and_arch) ==
    LET version_components == split(self.version, ".")
        n == Len(version_components)
        has_yb == self.version_suffix # None /\ startswith(self.version_suffix, yb)
        counter == SubSeq(self.version_suffix, 4, Len(self.version_suffix))
    IN  IF self.version = None THEN Raise("AttributeError")
        ELSE IF ~int_ok(version_components[1]) THEN Raise("ValueError")
        ELSE IF n < 2 THEN Raise("IndexError")
        ELSE IF ~int_ok(version_components[2]) THEN Raise("ValueError")
        ELSE IF n < 3 THEN Raise("IndexError")
        ELSE IF ~int_ok(version_components[3]) THEN Raise("ValueError")
        ELSE IF has_yb /\ ~int_ok(counter) THEN Raise("ValueError")
        ELSE IF self.timestamp = None \/ self.sha1_prefix = None
        THEN Raise("AssertionError")
        ELSE IF /\ is_old_tag_without_os_and_arch
                /\ \/ self.short_os_name_and_version \notin
                          {Unset, DEFAULT_SHORT_OS_NAME_AND_VERSION_FOR_OLD_BUILDS}
                   \/ self.architecture \notin
                          {Unset, DEFAULT_ARCHITECTURE_FOR_OLD_BUILDS}
        THEN Raise("AssertionError")
        ELSE IF /\ ~is_old_tag_without_os_and_arch
                /\ \/ self.short_os_name_and_version = None
                   \/ self.architecture = None
        THEN Raise("AssertionError")
        ELSE Return(
            [tag |-> self.tag,
             version |-> self.version,
             version_suffix |-> self.version_suffix,
             timestamp |-> self.timestamp,
             sha1_prefix |-> self.sha1_prefix,
             short_os_name_and_version |->
                 os_and_arch_after_init(self, is_old_tag_without_os_and_arch)[1],
             architecture |->
                 os_and_arch_after_init(self, is_old_tag_without_os_and_arch)[2],
             major_version |-> int(version_components[1]),
             minor_version |-> int(version_components[2]),
             patch_version |-> int(version_components[3]),
             yb_suffix_version |-> IF has_yb THEN <<int(counter)>> ELSE <<>>,
             is_old_tag_without_os_and_arch |-> is_old_tag_without_os_and_arch])

Attrs(tag, m) ==
    [tag |-> tag, version |-> m.version, version_suffix |-> m.version_suffix,
     timestamp |-> m.timestamp, sha1_prefix |-> m.sha1_prefix,
     short_os_name_and_version |-> m.short_os_name_and_version,
     architecture |-> m.architecture]

\* from_tag once both patterns have been tried: m is TAG_RE.match(tag) and m_old is
\* TAG_RE_WITHOUT_OS_AND_ARCH.match(tag), which the code tries when m is no match.
from_tag_matches(tag, m, m_old) ==
    IF ~m.matched /\ ~m_old.matched
    THEN Raise("TagParsingError")
    ELSE finish_init(Attrs(tag, IF m.matched THEN m ELSE m_old), ~m.matched)

from_tag(tag) == from_tag_matches(tag, TAG_RE(tag), TAG_RE_WITHOUT_OS_AND_ARCH(tag))

\* A variant of as_dict that forgets the version suffix.
as_dict_without_suffix(self) == [key \in ATTR_NAMES \ {"version_suffix"} |-> self[key]]

as_dict(self) == [key \in ATTR_NAMES |-> self[key]]

\* d.get(key): a key that is missing, like one whose JSON value is null, gives None.
DictGet(d, key) == IF key \in DOMAIN d THEN d[key] ELSE None

from_dict(d) ==
    IF "is_old_tag_without_os_and_arch" \notin DOMAIN d
    THEN Raise("AssertionError")
    ELSE finish_init(
             [tag |-> DictGet(d, "tag"),
              version |-> DictGet(d, "version"),
              version_suffix |-> DictGet(d, "version_suffix"),
              timestamp |-> DictGet(d, "timestamp"),
              sha1_prefix |-> DictGet(d, "sha1_prefix"),
              short_os_name_and_version |-> DictGet(d, "short_os_name_and_version"),
              architecture |-> DictGet(d, "architecture")],
             d["is_old_tag_without_os_and_arch"])

\* A variant of get_version_tuple that leaves the build counter out of the key.
get_version_tuple_without_counter(self) ==
    <<self.major_version,
      self.minor_version,
      self.patch_version,
      0,
      IF self.timestamp # None THEN int(self.timestamp) ELSE 0>>

get_version_tuple(self) ==
    <<self.major_version,
      self.minor_version,
      self.patch_version,
      IF self.yb_suffix_version = <<>> THEN 0 ELSE self.yb_suffix_version[1],
      IF self.timestamp # None THEN int(self.timestamp) ELSE 0>>

(***************************************************************************)
(* The tag parser driven over sample strings: from_tag, then as_dict, then *)
(* from_dict of that dictionary or of a damaged copy of it.                *)
(***************************************************************************)
NotRun == [kind |-> "not run", value |-> <<>>]

SampleVersions == {<<"1", "4", ".", "0", ".", "3">>,
                   <<"1", "4", ".", "0">>,
                   <<"1", "4">>,
                   <<"0", "1", "4", ".", "0", ".", "3">>,
                   <<"1", "4", ".", ".", "3">>,
                   <<"1", "4", ".", "0", ".", "3", ".", "1">>}

SampleSuffixes == {<<>>,
                   <<"-", "y", "b", "-", "1">>,
                   <<"-", "y", "b", "-">>,
                   <<"-", "r", "c", "1">>}

SampleTimestamps == {<<"5">>, <<"0", "7">>}

SampleShas == {<<"a">>, <<"1", "f">>}

SampleTails == {<<>>,
                <<"-", "c", "e", "n", "t", "o", "s", "7", "-", "x", "8", "6", "_", "6", "4">>,
                <<"-", "u", "b", "u", "n", "t", "u", "2", "2", ".", "0", "4", "-",
                  "a", "a", "r", "c", "h", "6", "4">>,
                <<"-", "a", "m", "z", "n", "2", "-", "a", "r", "m", "6", "4">>,
                <<"-", "s", "o", "l", "a", "r", "i", "s", "1", "1", "-",
                  "x", "8", "6", "_", "6", "4">>,
                <<"-", "c", "e", "n", "t", "o", "s", "7", "-", "r", "i", "s", "c", "v">>,
                <<"-", "c", "e", "n", "t", "o", "s", "7", "-", "x", "8", "6", "_", "6", "4",
                  "-", "x">>,
                <<"-", "c", "e", "n", "t", "o", "s", "7", "-", "x", "8", "6", "_", "6", "4",
                  "\n">>}

JunkTags == {<<>>,
             <<"v">>,
             <<"n", "o", "t", "-", "a", "-", "v", "a", "l", "i", "d", "-", "t", "a", "g">>,
             <<"1", "4", ".", "0", ".", "3", "-", "5", "-", "a">>,
             <<"v", "1", "4", ".", "0", ".", "3", "-", "5">>,
             <<"v", "1", "4", ".", "0", ".", "3", "-", "5", "-", "x">>}

SampleTags ==
    {<<"v">> \o ver \o suf \o <<"-">> \o ts \o <<"-">> \o sha \o tail :
        ver \in SampleVersions, suf \in SampleSuffixes, ts \in SampleTimestamps,
        sha \in SampleShas, tail \in SampleTails}
    \cup JunkTags

\* A dictionary as release_tags.json may hold it: the one as_dict wrote, or that one
\* with a value missing (null), or with the legacy flag changed.
Without(d, key) == [k \in DOMAIN d \ {key} |-> d[k]]

DictInputs(d) ==
    {[as_written |-> TRUE, d |-> d]}
    \cup {[as_written |-> FALSE, d |-> Without(d, key)] :
              key \in TAG_RE_GROUP_KEYS \cup {"is_old_tag_without_os_and_arch"}}
    \cup {[as_written |-> FALSE,
           d |-> [d EXCEPT !["is_old_tag_without_os_and_arch"] = ~@]]}

InitParse ==
    /\ tag_in \in SampleTags
    /\ parsed = NotRun
    /\ dict = NotRun
    /\ reparsed = [input |-> [as_written |-> FALSE, d |-> <<>>], out |-> NotRun]
    /\ releases = <<>>
    /\ os_compat = {}
    /\ tags_file = [parsed_tags |-> <<>>]
    /\ installer = [given |-> <<>>, self |-> <<>>]
    /\ last = [op |-> "none", arg |-> 0, out |-> NotRun]
    /\ _instance = [serial |-> 0, obj |-> [parsed_tags |-> <<>>]]
    /\ pc = <<>>
    /\ local_tags = <<>>
    /\ ret = <<>>
    /\ loads = 0
    /\ IdleInstall

FromTag ==
    /\ parsed = NotRun
    /\ parsed' = from_tag(tag_in)
    /\ UNCHANGED <<tag_in, dict, reparsed>>
    /\ UNCHANGED catalog_vars
    /\ UNCHANGED singleton_vars
    /\ UNCHANGED install_vars

AsDict ==
    /\ parsed.kind = "ok"
    /\ dict = NotRun
    /\ dict' = Return(as_dict(parsed.value))
    /\ UNCHANGED <<tag_in, parsed, reparsed>>
    /\ UNCHANGED catalog_vars
    /\ UNCHANGED singleton_vars
    /\ UNCHANGED install_vars

FromDict ==
    /\ dict.kind = "ok"
    /\ \E input \in DictInputs(dict.value) :
           reparsed' = [input |-> input, out |-> from_dict(input.d)]
    /\ UNCHANGED <<tag_in, parsed, dict>>
    /\ UNCHANGED catalog_vars
    /\ UNCHANGED singleton_vars
    /\ UNCHANGED install_vars

NextParse == FromTag \/ AsDict \/ FromDict

SpecParse == InitParse /\ [][NextParse]_vars

(***************************************************************************)
(* Ordering of strings and tuples                                          *)
(***************************************************************************)
\* The characters in code point order
Alphabet == <<"\n", "-", ".", "0", "1", "2", "3", "4", "5", "6", "7", "8", "9", "_",
              "a", "b", "c", "d", "e", "f", "g", "h", "i", "j", "k", "l", "m",
              "n", "o", "p", "q", "r", "s", "t", "u", "v", "w", "x", "y", "z">>

ord(c) == CHOOSE i \in 1..Len(Alphabet) : Alphabet[i] = c

\* a < b for two str
RECURSIVE StrLess(_, _)
StrLess(a, b) ==
    IF b = <<>> THEN FALSE
    ELSE IF a = <<>> THEN TRUE
    ELSE IF a[1] # b[1] THEN ord(a[1]) < ord(b[1])
    ELSE StrLess(Tail(a), Tail(b))

\* a < b for two tuples of int of the same length
RECURSIVE TupleLess(_, _)
TupleLess(a, b) ==
    IF a = <<>> THEN FALSE
    ELSE IF a[1] # b[1] THEN a[1] < b[1]
    ELSE TupleLess(Tail(a), Tail(b))

DigitChar(n) == Alphabet[n + 4]

\* str(n) for n >= 0
RECURSIVE str(_)
str(n) == IF n < 10 THEN <<DigitChar(n)>> ELSE str(n \div 10) \o <<DigitChar(n % 10)>>

get_sort_key(self) ==
    [major_version |-> self.major_version,
     strings |-> <<self.short_os_name_and_version,
                   self.architecture,
                   self.timestamp,
                   self.sha1_prefix,
                   self.tag,
                   IF self.version_suffix = None THEN <<>> ELSE self.version_suffix>>]

RECURSIVE StrTupleLess(_, _)
StrTupleLess(a, b) ==
    IF a = <<>> THEN FALSE
    ELSE IF a[1] # b[1] THEN StrLess(a[1], b[1])
    ELSE StrTupleLess(Tail(a), Tail(b))

SortKeyLess(k1, k2) ==
    IF k1.major_version # k2.major_version
    THEN k1.major_version < k2.major_version
    ELSE StrTupleLess(k1.strings, k2.strings)

\* list.sort(key=get_sort_key): a stable insertion of each element in turn
RECURSIVE sort_by_key(_)
sort_by_key(l) ==
    IF l = <<>> THEN <<>>
    ELSE LET rest == sort_by_key(SubSeq(l, 1, Len(l) - 1))
             x == l[Len(l)]
             k == Cardinality({i \in 1..Len(rest) :
                      ~SortKeyLess(get_sort_key(x), get_sort_key(rest[i]))})
         IN  SubSeq(rest, 1, k) \o <<x>> \o SubSeq(rest, k + 1, Len(rest))

(***************************************************************************)
(* The tag-refresh script (update_tags.py): it writes release_tags.json    *)
(***************************************************************************)
MinMajorVersion == 12

\* The loop over the releases that carry both expected assets: the valid tags in
\* the order met, or the exception that ends the script.  Only TagParsingError is
\* caught.
\* One pass of the loop: parsed_tag is from_tag's outcome for this release, rest
\* the outcome of the passes after it.
keep_valid_tag(parsed_tag, rest) ==
    IF parsed_tag.kind \notin {"ok", "TagParsingError"}
    THEN Raise(parsed_tag.kind)
    ELSE IF rest.kind # "ok" THEN rest
    ELSE IF parsed_tag.kind = "TagParsingError" THEN rest
    ELSE IF parsed_tag.value.major_version < MinMajorVersion THEN rest
    ELSE Return(<<parsed_tag.value>> \o rest.value)

RECURSIVE collect_valid_tags(_)
collect_valid_tags(tag_names) ==
    IF tag_names = <<>> THEN Return(<<>>)
    ELSE keep_valid_tag(from_tag(Head(tag_names)), collect_valid_tags(Tail(tag_names)))

dicts_of(valid_tags) == [i \in 1..Len(valid_tags) |-> as_dict(valid_tags[i])]

json_data_of(valid_tags) ==
    IF valid_tags.kind # "ok" THEN valid_tags
    ELSE Return([parsed_tags |-> dicts_of(sort_by_key(valid_tags.value))])

\* main(): the json_data written to release_tags.json, or the exception
update_tags_main(tag_names) == json_data_of(collect_valid_tags(tag_names))

(***************************************************************************)
(* LlvmPackageCollection                                                   *)
(***************************************************************************)
\* The constructor, given ParsedTag objects
LlvmPackageCollection(tags) == [parsed_tags |-> tags]

\* LlvmPackageCollection._instance: the object and the serial number of the
\* construction that made it (its identity); serial 0 is None.
NoInstance == [serial |-> 0, obj |-> LlvmPackageCollection(<<>>)]

\* The body of the "with open(...)" block of get_instance: the parsed_tags list,
\* or the exception from_dict raises on the first entry it rejects.
append_parsed_tag(parsed_tag, rest) ==
    IF parsed_tag.kind # "ok" THEN parsed_tag
    ELSE IF rest.kind # "ok" THEN rest
    ELSE Return(<<parsed_tag.value>> \o rest.value)

RECURSIVE load_parsed_tags(_)
load_parsed_tags(entries) ==
    IF entries = <<>> THEN Return(<<>>)
    ELSE append_parsed_tag(from_dict(Head(entries)), load_parsed_tags(Tail(entries)))

\* get_instance() run by one caller without interruption: the new value of
\* _instance, what the call returns or raises, and whether the file was read.
\* The first instance: line 210 with the parsed_tags the load gave
first_instance(parsed_tags) == [serial |-> 1, obj |-> LlvmPackageCollection(parsed_tags)]

set_instance(inst, parsed_tags) ==
    IF parsed_tags.kind # "ok"
    THEN [instance |-> inst, out |-> parsed_tags, read |-> 1]
    ELSE [instance |-> first_instance(parsed_tags.value),
          out |-> Return(first_instance(parsed_tags.value)), read |-> 1]

get_instance(inst, json_data) ==
    IF inst.serial # 0
    THEN [instance |-> inst, out |-> Return(inst), read |-> 0]
    ELSE set_instance(inst, load_parsed_tags(json_data.parsed_tags))

is_compatible_os(os1, os2) == <<os1, os2>> \in os_compat

\* A method call gives the receiver as the call leaves it (self) and what it returns.
filter(self, major_llvm_version, short_os_name_and_version, architecture) ==
    [self |-> self,
     result |-> LlvmPackageCollection(
         SelectSeq(self.parsed_tags,
                   LAMBDA parsed_tag :
                       /\ startswith(parsed_tag.version, str(major_llvm_version) \o <<".">>)
                       /\ is_compatible_os(parsed_tag.short_os_name_and_version,
                                           short_os_name_and_version)
                       /\ parsed_tag.architecture = architecture))]

\* The tags of a list of ParsedTag: what str(parsed_tag) of each shows
TagsOf(parsed_tags) == [i \in 1..Len(parsed_tags) |-> parsed_tags[i].tag]

(***************************************************************************)
(* LlvmInstaller                                                           *)
(***************************************************************************)
DEFAULT_GITHUB_RELEASE_URL_PREFIX ==
    <<"h", "t", "t", "p", "s", ":", "/", "/", "g", "i", "t", "h", "u", "b", ".", "c",
      "o", "m", "/", "y", "u", "g", "a", "b", "y", "t", "e", "/", "b", "u", "i", "l",
      "d", "-", "c", "l", "a", "n", "g", "/", "r", "e", "l", "e", "a", "s", "e", "s",
      "/", "d", "o", "w", "n", "l", "o", "a", "d">>

DEFAULT_PACKAGE_NAME_PREFIX == <<"y", "b", "-", "l", "l", "v", "m", "-">>

DEFAULT_PACKAGE_NAME_SUFFIX == <<".", "t", "a", "r", ".", "g", "z">>

\* "x or default": None and the empty string are both false
Or(x, default) == IF x = None \/ x = <<>> THEN default ELSE x

\* A variant of strip_one_slash that keeps the trailing slash.
strip_no_slash(prefix) == prefix

strip_one_slash(prefix) ==
    IF endswith(prefix, <<"/">>) THEN SubSeq(prefix, 1, Len(prefix) - 1) ELSE prefix

\* __init__, given an OS/version and an architecture
LlvmInstaller(short_os_name_and_version, architecture, github_release_url_prefix, package_name_prefix, package_name_suffix) ==
    [short_os_name_and_version |-> short_os_name_and_version,
     architecture |-> architecture,
     github_release_url_prefix |->
         strip_one_slash(Or(github_release_url_prefix, DEFAULT_GITHUB_RELEASE_URL_PREFIX)),
     package_name_prefix |-> Or(package_name_prefix, DEFAULT_PACKAGE_NAME_PREFIX),
     package_name_suffix |-> Or(package_name_suffix, DEFAULT_PACKAGE_NAME_SUFFIX)]

get_url_for_tag(self, tag) ==
    self.github_release_url_prefix \o <<"/">> \o tag \o <<"/">>
        \o self.package_name_prefix \o tag \o self.package_name_suffix

\* A variant of selection_criteria_str that reports the default architecture
\* instead of the installer's.
selection_criteria_with_default_arch(self, major_llvm_version) ==
    [major_llvm_version |-> major_llvm_version,
     short_os_name_and_version |-> self.short_os_name_and_version,
     architecture |-> DEFAULT_ARCHITECTURE_FOR_OLD_BUILDS]

selection_criteria_str(self, major_llvm_version) ==
    [major_llvm_version |-> major_llvm_version,
     short_os_name_and_version |-> self.short_os_name_and_version,
     architecture |-> self.architecture]

\* max() of a non-empty list of version tuples
max(tuples) ==
    CHOOSE t \in {tuples[i] : i \in 1..Len(tuples)} :
        \A i \in 1..Len(tuples) : ~TupleLess(t, tuples[i])

\* A variant of listed_in_error that names only the first of the tied tags.
listed_first_only(filtered_packages, highest_version_tags) ==
    TagsOf(<<highest_version_tags[1]>>)

\* The tags the ambiguity error's message lists
listed_in_error(filtered_packages, highest_version_tags) ==
    TagsOf(filtered_packages.parsed_tags)

\* get_parsed_tag after packages = get_instance() returned
\* (packages: the catalog as the call leaves it; out: what it returns or raises)
get_parsed_tag(self, major_llvm_version, packages) ==
    LET filtering == filter(packages, major_llvm_version,
                            self.short_os_name_and_version, self.architecture)
        filtered_packages == filtering.result
        parsed_tags == filtered_packages.parsed_tags
        max_version_tuple ==
            max([i \in 1..Len(parsed_tags) |-> get_version_tuple(parsed_tags[i])])
        highest_version_tags ==
            SelectSeq(parsed_tags,
                      LAMBDA parsed_tag : get_version_tuple(parsed_tag) = max_version_tuple)
    IN  [packages |-> filtering.self,
         out |->
            IF parsed_tags = <<>>
            THEN [kind |-> "ValueError",
                  value |-> [error_msg |-> "Could not find an LLVM release for",
                             criteria |-> selection_criteria_str(self, major_llvm_version),
                             max_version_tuple |-> <<>>,
                             listed |-> <<>>,
                             warning |-> TagsOf(filtering.self.parsed_tags)]]
            ELSE IF Len(parsed_tags) = 1 THEN Return(parsed_tags[1])
            ELSE IF Len(highest_version_tags) = 1 THEN Return(highest_version_tags[1])
            ELSE [kind |-> "ValueError",
                  value |-> [error_msg |-> "Multiple packages found for",
                             criteria |-> selection_criteria_str(self, major_llvm_version),
                             max_version_tuple |-> max_version_tuple,
                             listed |-> listed_in_error(filtered_packages,
                                                        highest_version_tags),
                             warning |-> <<>>]]]

\* get_llvm_url after packages = get_instance() returned
get_llvm_url(self, major_llvm_version, packages) ==
    LET call == get_parsed_tag(self, major_llvm_version, packages)
    IN  [packages |-> call.packages,
         out |-> IF call.out.kind # "ok" THEN call.out
                 ELSE Return(get_url_for_tag(self, call.out.value.tag))]

(***************************************************************************)
(* The catalog driven from a list of release tags: the tag-refresh script  *)
(* writes release_tags.json, and an installer looks releases up.           *)
(***************************************************************************)
\* v14.0.3-7-b-centos7-x86_64
TagB ==
    <<"v", "1", "4", ".", "0", ".", "3", "-", "7", "-", "b", "-", "c", "e", "n", "t", "o",
      "s", "7", "-", "x", "8", "6", "_", "6", "4">>

\* v14.0.3-7-c-centos7-x86_64
TagC ==
    <<"v", "1", "4", ".", "0", ".", "3", "-", "7", "-", "c", "-", "c", "e", "n", "t", "o",
      "s", "7", "-", "x", "8", "6", "_", "6", "4">>

\* v14.0.3-10-a-centos7-x86_64
TagD ==
    <<"v", "1", "4", ".", "0", ".", "3", "-", "1", "0", "-", "a", "-", "c", "e", "n", "t",
      "o", "s", "7", "-", "x", "8", "6", "_", "6", "4">>

\* v14.0.3-10-a
TagE ==
    <<"v", "1", "4", ".", "0", ".", "3", "-", "1", "0", "-", "a">>

\* v14.0.3-yb-1-6-a-centos7-x86_64
TagF ==
    <<"v", "1", "4", ".", "0", ".", "3", "-", "y", "b", "-", "1", "-", "6", "-", "a", "-",
      "c", "e", "n", "t", "o", "s", "7", "-", "x", "8", "6", "_", "6", "4">>

\* v014.0.3-9-a-centos7-x86_64
TagG ==
    <<"v", "0", "1", "4", ".", "0", ".", "3", "-", "9", "-", "a", "-", "c", "e", "n", "t",
      "o", "s", "7", "-", "x", "8", "6", "_", "6", "4">>

\* v15.0.0-5-a-centos7-x86_64
TagH ==
    <<"v", "1", "5", ".", "0", ".", "0", "-", "5", "-", "a", "-", "c", "e", "n", "t", "o",
      "s", "7", "-", "x", "8", "6", "_", "6", "4">>

\* v14.0.3-7-b-centos8-aarch64
TagI ==
    <<"v", "1", "4", ".", "0", ".", "3", "-", "7", "-", "b", "-", "c", "e", "n", "t", "o",
      "s", "8", "-", "a", "a", "r", "c", "h", "6", "4">>

\* v14.0-5-a-centos7-x86_64
TagJ ==
    <<"v", "1", "4", ".", "0", "-", "5", "-", "a", "-", "c", "e", "n", "t", "o", "s", "7",
      "-", "x", "8", "6", "_", "6", "4">>

\* not-a-valid-tag
TagK ==
    <<"n", "o", "t", "-", "a", "-", "v", "a", "l", "i", "d", "-", "t", "a", "g">>

\* v11.1.0-5-a
TagL ==
    <<"v", "1", "1", ".", "1", ".", "0", "-", "5", "-", "a">>

ReleasePool == {TagB, TagC, TagD, TagE, TagF, TagG, TagH, TagI, TagJ, TagK, TagL}

MaxReleases == 2

\* The tag names of the releases: distinct, in the order GitHub lists them
ReleaseLists ==
    UNION {{l \in [1..n -> ReleasePool] : \A i, j \in 1..n : i # j => l[i] # l[j]} :
               n \in 0..MaxReleases}

centos7 == <<"c", "e", "n", "t", "o", "s", "7">>
centos8 == <<"c", "e", "n", "t", "o", "s", "8">>
almalinux8 == <<"a", "l", "m", "a", "l", "i", "n", "u", "x", "8">>
x86_64 == <<"x", "8", "6", "_", "6", "4">>
aarch64 == <<"a", "a", "r", "c", "h", "6", "4">>

OsNames == {centos7, centos8, almalinux8}

\* Two possible compatibility oracles: only equal names are compatible, or the
\* RHEL 8 rebuilds are compatible with each other as well.
Oracles == {{<<os, os>> : os \in OsNames},
            {<<os, os>> : os \in OsNames}
                \cup {<<centos8, almalinux8>>, <<almalinux8, centos8>>}}

RequestedMajors == {14, 15}

NoCall == [op |-> "none", arg |-> 0, out |-> NotRun]

\* What update_tags.py writes when the repository has no release
EmptyDataset == [parsed_tags |-> <<>>]

IdleThreads ==
    /\ pc = <<>>
    /\ local_tags = <<>>
    /\ ret = <<>>

IdleParser ==
    /\ tag_in = <<>>
    /\ parsed = NotRun
    /\ dict = NotRun
    /\ reparsed = [input |-> [as_written |-> FALSE, d |-> <<>>], out |-> NotRun]

InitCatalog ==
    /\ releases \in ReleaseLists
    /\ os_compat \in Oracles
    /\ tags_file = EmptyDataset
    /\ installer \in {[given |-> <<os_arch[1], os_arch[2], None, None, None>>,
                       self |-> LlvmInstaller(os_arch[1], os_arch[2], None, None, None)] :
                          os_arch \in {<<centos7, x86_64>>, <<almalinux8, aarch64>>}}
    /\ last = NoCall
    /\ _instance = NoInstance
    /\ loads = 0
    /\ IdleThreads
    /\ IdleParser
    /\ IdleInstall

\* update_tags.py runs: the file is rewritten unless the script dies first
UpdateTags ==
    /\ \E json_data \in {update_tags_main(releases)} :
           /\ tags_file' = IF json_data.kind = "ok" THEN json_data.value ELSE tags_file
           /\ last' = [op |-> "update_tags", arg |-> 0,
                       out |-> IF json_data.kind = "ok" THEN Return(<<>>) ELSE json_data]
    /\ UNCHANGED <<releases, os_compat, installer, _instance, loads>>
    /\ UNCHANGED <<pc, local_tags, ret>>
    /\ UNCHANGED parse_vars
    /\ UNCHANGED install_vars

\* LlvmPackageCollection.get_instance().filter(major, os, arch)
Filter(major_llvm_version) ==
    /\ \E got \in {get_instance(_instance, tags_file)} :
       \E call \in {filter(got.instance.obj, major_llvm_version,
               installer.self.short_os_name_and_version,
               installer.self.architecture)} :
           /\ _instance' = IF got.out.kind = "ok"
                           THEN [got.instance EXCEPT !.obj = call.self]
                           ELSE got.instance
           /\ loads' = loads + got.read
           /\ last' = [op |-> "filter", arg |-> major_llvm_version,
                       out |-> IF got.out.kind = "ok" THEN Return(call.result)
                               ELSE got.out]
    /\ UNCHANGED <<releases, os_compat, tags_file, installer>>
    /\ UNCHANGED <<pc, local_tags, ret>>
    /\ UNCHANGED parse_vars
    /\ UNCHANGED install_vars

\* installer.get_parsed_tag(major)
GetParsedTag(major_llvm_version) ==
    /\ \E got \in {get_instance(_instance, tags_file)} :
       \E call \in {get_parsed_tag(installer.self, major_llvm_version, got.instance.obj)} :
           /\ _instance' = IF got.out.kind = "ok"
                           THEN [got.instance EXCEPT !.obj = call.packages]
                           ELSE got.instance
           /\ loads' = loads + got.read
           /\ last' = [op |-> "get_parsed_tag", arg |-> major_llvm_version,
                       out |-> IF got.out.kind = "ok" THEN call.out ELSE got.out]
    /\ UNCHANGED <<releases, os_compat, tags_file, installer>>
    /\ UNCHANGED <<pc, local_tags, ret>>
    /\ UNCHANGED parse_vars
    /\ UNCHANGED install_vars

\* installer.get_llvm_url(major)
GetLlvmUrl(major_llvm_version) ==
    /\ \E got \in {get_instance(_instance, tags_file)} :
       \E call \in {get_llvm_url(installer.self, major_llvm_version, got.instance.obj)} :
           /\ _instance' = IF got.out.kind = "ok"
                           THEN [got.instance EXCEPT !.obj = call.packages]
                           ELSE got.instance
           /\ loads' = loads + got.read
           /\ last' = [op |-> "get_llvm_url", arg |-> major_llvm_version,
                       out |-> IF got.out.kind = "ok" THEN call.out ELSE got.out]
    /\ UNCHANGED <<releases, os_compat, tags_file, installer>>
    /\ UNCHANGED <<pc, local_tags, ret>>
    /\ UNCHANGED parse_vars
    /\ UNCHANGED install_vars

NextCatalog ==
    \/ UpdateTags
    \/ \E major_llvm_version \in RequestedMajors : Filter(major_llvm_version)
    \/ \E major_llvm_version \in RequestedMajors : GetParsedTag(major_llvm_version)
    \/ \E major_llvm_version \in RequestedMajors : GetLlvmUrl(major_llvm_version)

SpecCatalog == InitCatalog /\ [][NextCatalog]_vars

(***************************************************************************)
(* The URL builder driven over sample constructor arguments and tags       *)
(***************************************************************************)
UrlPrefixes == {None, <<>>, <<"h">>, <<"h", "/">>, <<"h", "/", "/">>, <<"/">>}

NamePrefixes == {None, <<>>, <<"p", "-">>}

NameSuffixes == {None, <<>>, <<".", "z", "i", "p">>}

UrlTags == {<<"t">>, TagE, TagB}

InitUrl ==
    /\ installer = [given |-> <<>>, self |-> <<>>]
    /\ last = NoCall
    /\ releases = <<>>
    /\ os_compat = {}
    /\ tags_file = EmptyDataset
    /\ _instance = NoInstance
    /\ loads = 0
    /\ IdleThreads
    /\ IdleParser
    /\ IdleInstall

\* installer = LlvmInstaller(os, arch, url_prefix, name_prefix, name_suffix)
NewInstaller ==
    /\ \E github_release_url_prefix \in UrlPrefixes, package_name_prefix \in NamePrefixes,
          package_name_suffix \in NameSuffixes :
           installer' =
               [given |-> <<centos7, x86_64, github_release_url_prefix,
                            package_name_prefix, package_name_suffix>>,
                self |-> LlvmInstaller(centos7, x86_64, github_release_url_prefix,
                                       package_name_prefix, package_name_suffix)]
    /\ last' = NoCall
    /\ UNCHANGED <<releases, os_compat, tags_file>>
    /\ UNCHANGED singleton_vars
    /\ UNCHANGED parse_vars
    /\ UNCHANGED install_vars

\* installer.get_url_for_tag(tag)
GetUrlForTag ==
    /\ installer.given # <<>>
    /\ \E tag \in UrlTags :
           last' = [op |-> "get_url_for_tag", arg |-> tag,
                    out |-> Return(get_url_for_tag(installer.self, tag))]
    /\ UNCHANGED <<releases, os_compat, tags_file, installer>>
    /\ UNCHANGED singleton_vars
    /\ UNCHANGED parse_vars
    /\ UNCHANGED install_vars

NextUrl == NewInstaller \/ GetUrlForTag

SpecUrl == InitUrl /\ [][NextUrl]_vars

(***************************************************************************)
(* get_instance called by several threads, statement by statement          *)
(***************************************************************************)
NumThreads == 2

MaxCalls == 2

Threads == 1..NumThreads

\* A dataset whose first entry has lost its "version" (null)
MalformedDataset ==
    [parsed_tags |-> <<Without(as_dict(from_tag(TagB).value), "version"),
                       as_dict(from_tag(TagD).value)>>]

SampleDatasets == {EmptyDataset,
                   update_tags_main(<<TagD, TagB>>).value,
                   update_tags_main(<<TagE, TagH, TagI>>).value,
                   MalformedDataset}

InitSingleton ==
    /\ tags_file \in SampleDatasets
    /\ _instance = NoInstance
    /\ pc = [t \in Threads |-> "idle"]
    /\ local_tags = [t \in Threads |-> <<>>]
    /\ ret = [t \in Threads |-> <<>>]
    /\ loads = 0
    /\ releases = <<>>
    /\ os_compat = {}
    /\ installer = [given |-> <<>>, self |-> <<>>]
    /\ last = NoCall
    /\ IdleParser
    /\ IdleInstall

\* A thread calls LlvmPackageCollection.get_instance()
Call(t) ==
    /\ pc[t] = "idle"
    /\ Len(ret[t]) < MaxCalls
    /\ pc' = [pc EXCEPT ![t] = "check"]
    /\ UNCHANGED <<_instance, local_tags, ret, loads>>
    /\ UNCHANGED catalog_vars
    /\ UNCHANGED parse_vars
    /\ UNCHANGED install_vars

\* if not LlvmPackageCollection._instance:
CheckInstance(t) ==
    /\ pc[t] = "check"
    /\ pc' = [pc EXCEPT ![t] = IF _instance.serial = 0 THEN "load" ELSE "return"]
    /\ UNCHANGED <<_instance, local_tags, ret, loads>>
    /\ UNCHANGED catalog_vars
    /\ UNCHANGED parse_vars
    /\ UNCHANGED install_vars

\* The "with open(...)" block: the file is read and each entry parsed; an exception
\* ends the call.
Load(t) ==
    /\ pc[t] = "load"
    /\ loads' = loads + 1
    /\ \E parsed_tags \in {load_parsed_tags(tags_file.parsed_tags)} :
           IF parsed_tags.kind = "ok"
           THEN /\ local_tags' = [local_tags EXCEPT ![t] = parsed_tags.value]
                /\ pc' = [pc EXCEPT ![t] = "assign"]
                /\ ret' = ret
           ELSE /\ local_tags' = local_tags
                /\ pc' = [pc EXCEPT ![t] = "idle"]
                /\ ret' = [ret EXCEPT ![t] = Append(@, [kind |-> parsed_tags.kind,
                                                        serial |-> 0])]
    /\ UNCHANGED _instance
    /\ UNCHANGED catalog_vars
    /\ UNCHANGED parse_vars
    /\ UNCHANGED install_vars

\* LlvmPackageCollection._instance = LlvmPackageCollection(parsed_tags): a new object
Assign(t) ==
    /\ pc[t] = "assign"
    /\ _instance' = [serial |-> _instance.serial + 1,
                     obj |-> LlvmPackageCollection(local_tags[t])]
    /\ pc' = [pc EXCEPT ![t] = "return"]
    /\ UNCHANGED <<local_tags, ret, loads>>
    /\ UNCHANGED catalog_vars
    /\ UNCHANGED parse_vars
    /\ UNCHANGED install_vars

\* return LlvmPackageCollection._instance
ReturnInstance(t) ==
    /\ pc[t] = "return"
    /\ ret' = [ret EXCEPT ![t] = Append(@, [kind |-> "ok", serial |-> _instance.serial])]
    /\ pc' = [pc EXCEPT ![t] = "idle"]
    /\ UNCHANGED <<_instance, local_tags, loads>>
    /\ UNCHANGED catalog_vars
    /\ UNCHANGED parse_vars
    /\ UNCHANGED install_vars

NextSingleton ==
    \E t \in Threads :
        \/ Call(t)
        \/ CheckInstance(t)
        \/ Load(t)
        \/ Assign(t)
        \/ ReturnInstance(t)

SpecSingleton == InitSingleton /\ [][NextSingleton]_vars

(***************************************************************************)
(* install(): the command-line "install" command, statement by statement,  *)
(* over the install directories under /opt/yb-build/llvm                   *)
(***************************************************************************)
\* os.path.basename
basename(path) ==
    LET slashes == {i \in 1..Len(path) : path[i] = "/"}
    IN  IF slashes = {} THEN path ELSE SubSeq(path, Max(slashes) + 1, Len(path))

\* The loop over ['.zip', '.tar.gz']: the archive name without its extension, None
\* when it has neither
install_dir_name_of(archive_name) ==
    IF endswith(archive_name, <<".", "z", "i", "p">>)
    THEN SubSeq(archive_name, 1, Len(archive_name) - 4)
    ELSE IF endswith(archive_name, <<".", "t", "a", "r", ".", "g", "z">>)
    THEN SubSeq(archive_name, 1, Len(archive_name) - 7)
    ELSE None

\* A variant of skips_installation that does not look at once.
skips_whenever_flagged(once, flag_file_exists) == flag_file_exists

\* if once and os.path.exists(flag_file_path)
skips_installation(once, flag_file_exists) == once /\ flag_file_exists

\* The releases main() installs here: a 14 and a 15 for this machine
InstallTags == {TagB, TagH}

\* llvm_url as main() passes it: installer.get_llvm_url(...) of an installer with
\* the default URL prefix and package name prefix and suffix
llvm_url_of(tag) == get_url_for_tag(LlvmInstaller(centos7, x86_64, None, None, None), tag)

InstallDirs == {install_dir_name_of(basename(llvm_url_of(tag))) : tag \in InstallTags}

InitInstall ==
    /\ flag_file = [install_dir \in InstallDirs |-> FALSE]
    /\ extraction = [install_dir \in InstallDirs |-> "none"]
    /\ downloads = {}
    /\ run = NoRun
    /\ releases = <<>>
    /\ os_compat = {}
    /\ tags_file = EmptyDataset
    /\ installer = [given |-> <<>>, self |-> <<>>]
    /\ last = NoCall
    /\ _instance = NoInstance
    /\ loads = 0
    /\ IdleThreads
    /\ IdleParser

\* The rest of the state, which install() does not touch
InstallOnly ==
    /\ UNCHANGED parse_vars
    /\ UNCHANGED catalog_vars
    /\ UNCHANGED singleton_vars

\* install(llvm_url, once, verbose) is called: lines 36-51
begin_install(once, install_dir_name) ==
    IF install_dir_name = None \/ install_dir_name = <<>>
    THEN [NoRun EXCEPT !.once = once, !.outcome = "ValueError"]
    ELSE [pc |-> "check", once |-> once, install_dir |-> install_dir_name,
          found |-> FALSE, steps |-> <<>>, outcome |-> "running"]

Install ==
    /\ run.pc = "idle"
    /\ \E once \in BOOLEAN, tag \in InstallTags :
           run' = begin_install(once, install_dir_name_of(basename(llvm_url_of(tag))))
    /\ UNCHANGED <<flag_file, extraction, downloads>>
    /\ InstallOnly

\* if once and os.path.exists(flag_file_path): return
CheckFlagFile ==
    /\ run.pc = "check"
    /\ run' = IF skips_installation(run.once, flag_file[run.install_dir])
              THEN [run EXCEPT !.pc = "idle", !.found = flag_file[run.install_dir],
                               !.outcome = "returned"]
              ELSE [run EXCEPT !.pc = "download", !.found = flag_file[run.install_dir]]
    /\ UNCHANGED <<flag_file, extraction, downloads>>
    /\ InstallOnly

\* downloader.download_url(...): the archive arrives and its checksum verifies, or
\* the call raises
Download ==
    /\ run.pc = "download"
    /\ \E downloaded \in BOOLEAN :
           IF downloaded
           THEN /\ downloads' = downloads \cup {run.install_dir}
                /\ run' = [run EXCEPT !.pc = "extract", !.steps = Append(@, "download")]
           ELSE /\ downloads' = downloads
                /\ run' = [run EXCEPT !.pc = "idle", !.steps = Append(@, "download"),
                                      !.outcome = "DownloadError"]
    /\ UNCHANGED <<flag_file, extraction>>
    /\ InstallOnly

\* subprocess.check_call(['tar', 'xzf', archive_name], ...): tar starts writing into
\* the install directory
StartExtract ==
    /\ run.pc = "extract"
    /\ extraction' = [extraction EXCEPT ![run.install_dir] = "in progress"]
    /\ run' = [run EXCEPT !.pc = "extracting", !.steps = Append(@, "extract")]
    /\ UNCHANGED <<flag_file, downloads>>
    /\ InstallOnly

\* tar exits: with 0, or with another status and check_call raises
FinishExtract ==
    /\ run.pc = "extracting"
    /\ \E extracted \in BOOLEAN :
           IF extracted
           THEN /\ extraction' = [extraction EXCEPT ![run.install_dir] = "finished"]
                /\ run' = [run EXCEPT !.pc = "flag"]
           ELSE /\ extraction' = [extraction EXCEPT ![run.install_dir] = "failed"]
                /\ run' = [run EXCEPT !.pc = "idle", !.outcome = "CalledProcessError"]
    /\ UNCHANGED <<flag_file, downloads>>
    /\ InstallOnly

\* with open(flag_file_path, 'w')
WriteFlagFile ==
    /\ run.pc = "flag"
    /\ flag_file' = [flag_file EXCEPT ![run.install_dir] = TRUE]
    /\ run' = [run EXCEPT !.pc = "remove", !.steps = Append(@, "flag")]
    /\ UNCHANGED <<extraction, downloads>>
    /\ InstallOnly

\* os.remove(downloaded_path), and install() returns
RemoveDownload ==
    /\ run.pc = "remove"
    /\ downloads' = downloads \ {run.install_dir}
    /\ run' = [run EXCEPT !.pc = "idle", !.outcome = "returned"]
    /\ UNCHANGED <<flag_file, extraction>>
    /\ InstallOnly

NextInstall ==
    \/ Install
    \/ CheckFlagFile
    \/ Download
    \/ StartExtract
    \/ FinishExtract
    \/ WriteFlagFile
    \/ RemoveDownload

SpecInstall == InitInstall /\ [][NextInstall]_vars

(***************************************************************************)
(* The tag grammar as the interface describes it: anchored at both ends    *)
(***************************************************************************)
\* "-<timestamp>-<commitPrefix>" from position p up to position e
CoreWithin(s, p, e) ==
    /\ p <= Len(s) /\ s[p] = "-"
    /\ \E k \in (p + 2)..(e - 1) :
           /\ s[k] = "-"
           /\ AllIn(SubSeq(s, p + 1, k - 1), Digits)
           /\ AllIn(SubSeq(s, k + 1, e), HexChars)

\* "v<version>(-<versionSuffix>)?-<timestamp>-<commitPrefix>" is s[1..e]
PrefixWithin(s, e) ==
    /\ Len(s) >= 1 /\ s[1] = "v"
    /\ \E i \in 2..e :
           /\ AllIn(SubSeq(s, 2, i), VersionChars)
           /\ \/ CoreWithin(s, i + 1, e)
              \/ /\ i + 1 <= Len(s) /\ s[i + 1] = "-"
                 /\ \E j \in (i + 2)..e :
                        AllIn(SubSeq(s, i + 2, j), SuffixChars) /\ CoreWithin(s, j + 1, e)

InLegacyGrammar(s) == PrefixWithin(s, Len(s))

\* The pieces of s between its "-"
Pieces(s) == split(s, "-")

IsOsNameAndVersion(os) ==
    \E n \in SHORT_OS_NAME_REGEX_STR :
        startswith(os, n) /\ AllIn(SubSeq(os, Len(n) + 1, Len(os)), VersionChars)

\* The last two pieces are a recognised OS/version and one of the architectures,
\* and what precedes them is a legacy-format tag.
InCurrentGrammar(s) ==
    LET n == Len(Pieces(s))
        os == Pieces(s)[n - 1]
        arch == Pieces(s)[n]
    IN  /\ n >= 5
        /\ IsOsNameAndVersion(os)
        /\ arch \in ARCH_RE_STR
        /\ PrefixWithin(s, Len(s) - Len(os) - Len(arch) - 2)

\* The number of numeric parts of the version component of a tag "v<version>-..."
NumericVersionParts(s) ==
    LET version == SubSeq(s, 2, RunEnd(s, 2, VersionChars))
        parts == split(version, ".")
    IN  Cardinality({i \in 1..Len(parts) : Len(parts[i]) >= 1 /\ AllIn(parts[i], Digits)})

(***************************************************************************)
(* Claims about the tag parser, under SpecParse                            *)
(***************************************************************************)

\* The tag starts "v<version>" and the version has fewer than three numeric parts
HasShortVersion(s) ==
    /\ Len(s) >= 2 /\ s[1] = "v" /\ s[2] \in VersionChars
    /\ NumericVersionParts(s) < 3

\* C5: from_tag succeeds only for a string that as a whole matches the current
\* grammar or as a whole matches the legacy grammar; every other string fails, and
\* with TagParsingError (the kind of failure of a string whose version has fewer
\* than three parts is the subject of C6 and left open here); and a tag is marked
\* legacy only when it has no components after the commit prefix.
C5_OnlyWholeMatchesParse ==
    parsed # NotRun =>
        /\ parsed.kind = "ok" => InCurrentGrammar(tag_in) \/ InLegacyGrammar(tag_in)
        /\ ~InCurrentGrammar(tag_in) /\ ~InLegacyGrammar(tag_in) /\ ~HasShortVersion(tag_in)
               => parsed.kind = "TagParsingError"
        /\ (parsed.kind = "ok" /\ parsed.value.is_old_tag_without_os_and_arch)
               => InLegacyGrammar(tag_in)

\* C6: parsing a tag whose version component has fewer than three dot-separated
\* numeric parts fails with TagParsingError and with no other kind of failure.
C6_ShortVersionIsTagParsingError ==
    (parsed # NotRun /\ HasShortVersion(tag_in)) => parsed.kind = "TagParsingError"

\* C7: for every string s that from_tag accepts, from_tag(s).tag = s, and
\* from_dict(from_tag(s).as_dict()) succeeds and equals from_tag(s) on every
\* attribute of ATTR_NAMES.
C7_RoundTrip ==
    /\ parsed.kind = "ok" => parsed.value.tag = tag_in
    /\ (reparsed.out # NotRun /\ reparsed.input.as_written)
           => /\ reparsed.out.kind = "ok"
              /\ \A key \in ATTR_NAMES : reparsed.out.value[key] = parsed.value[key]

\* A legacy-format tag with a build counter has gone through from_tag, as_dict and
\* from_dict.
C7_Witness ==
    /\ parsed.kind = "ok"
    /\ parsed.value.is_old_tag_without_os_and_arch
    /\ parsed.value.yb_suffix_version = <<1>>
    /\ reparsed.input.as_written
    /\ reparsed.out.kind = "ok"

\* C8: after every successful from_tag or from_dict the record has an OS/version
\* and an architecture; for a legacy-format tag they are the defaults 'centos7'
\* and 'x86_64' and the legacy flag is true, for a current-format tag they are the
\* parsed values and the legacy flag is false.  (from_dict has no tag to parse: its
\* format is the flag the dictionary carries.)
C8_OsAndArchPresent ==
    /\ parsed.kind = "ok" =>
           LET r == parsed.value
               n == Len(Pieces(tag_in))
           IN  /\ r.short_os_name_and_version \notin {None, Unset}
               /\ r.architecture \notin {None, Unset}
               /\ InLegacyGrammar(tag_in) =>
                      /\ r.is_old_tag_without_os_and_arch
                      /\ r.short_os_name_and_version = <<"c", "e", "n", "t", "o", "s", "7">>
                      /\ r.architecture = <<"x", "8", "6", "_", "6", "4">>
               /\ InCurrentGrammar(tag_in) =>
                      /\ ~r.is_old_tag_without_os_and_arch
                      /\ r.short_os_name_and_version = Pieces(tag_in)[n - 1]
                      /\ r.architecture = Pieces(tag_in)[n]
    /\ reparsed.out.kind = "ok" =>
           LET r == reparsed.out.value
               d == reparsed.input.d
           IN  /\ r.short_os_name_and_version \notin {None, Unset}
               /\ r.architecture \notin {None, Unset}
               /\ r.is_old_tag_without_os_and_arch = d["is_old_tag_without_os_and_arch"]
               /\ r.is_old_tag_without_os_and_arch =>
                      /\ r.short_os_name_and_version = <<"c", "e", "n", "t", "o", "s", "7">>
                      /\ r.architecture = <<"x", "8", "6", "_", "6", "4">>
               /\ ~r.is_old_tag_without_os_and_arch =>
                      /\ r.short_os_name_and_version = d["short_os_name_and_version"]
                      /\ r.architecture = d["architecture"]

\* from_tag has parsed a legacy-format tag.
C8_Witness ==
    /\ parsed.kind = "ok"
    /\ InLegacyGrammar(tag_in)
    /\ parsed.value.is_old_tag_without_os_and_arch
    /\ parsed.value.short_os_name_and_version = <<"c", "e", "n", "t", "o", "s", "7">>

(***************************************************************************)
(* Claims about the catalog lookups, under SpecCatalog                     *)
(***************************************************************************)
\* The candidates of the last lookup: what filtering the catalog singleton by the
\* request (major version, the installer's OS/version and architecture) leaves
Candidates ==
    filter(_instance.obj, last.arg, installer.self.short_os_name_and_version,
           installer.self.architecture).result.parsed_tags

\* The integer after the 'yb-' marker of the version suffix, 0 without such a suffix
BuildCounter(entry) ==
    IF entry.version_suffix \notin {None, Unset} /\ startswith(entry.version_suffix, yb)
    THEN int(SubSeq(entry.version_suffix, Len(yb) + 1, Len(entry.version_suffix)))
    ELSE 0

\* (majorVersion, minorVersion, patchVersion, buildCounter, int(buildTimestamp))
Key(entry) ==
    <<entry.major_version, entry.minor_version, entry.patch_version,
      BuildCounter(entry), int(entry.timestamp)>>

\* a is strictly greater than b in lexicographic integer order
KeyGreater(a, b) ==
    \E k \in 1..5 : a[k] > b[k] /\ \A j \in 1..(k - 1) : a[j] = b[j]

\* Candidate i has the strictly greatest key
UniqueMaximum(i) ==
    \A j \in 1..Len(Candidates) :
        j # i => KeyGreater(Key(Candidates[i]), Key(Candidates[j]))

\* Candidate i has a greatest key and shares it with another candidate
TiedAtMaximum(i) ==
    /\ \A j \in 1..Len(Candidates) : ~KeyGreater(Key(Candidates[j]), Key(Candidates[i]))
    /\ \E j \in 1..Len(Candidates) : j # i /\ Key(Candidates[j]) = Key(Candidates[i])

\* C1: with two or more filtered candidates, get_parsed_tag returns a candidate
\* only if it is a member of the set whose key (major, minor, patch, build counter,
\* int(timestamp)) is strictly greater than the key of every other candidate, and
\* whenever such a unique maximum exists it is the entry returned.
C1_UniqueMaximumReturned ==
    (last.op = "get_parsed_tag" /\ Len(Candidates) >= 2) =>
        /\ last.out.kind = "ok" =>
               \E i \in 1..Len(Candidates) :
                   Candidates[i] = last.out.value /\ UniqueMaximum(i)
        /\ \A i \in 1..Len(Candidates) :
               UniqueMaximum(i) => last.out.kind = "ok" /\ last.out.value = Candidates[i]

\* Of two candidates the one with a build counter and the older timestamp was
\* returned.
C1_Witness ==
    /\ last.op = "get_parsed_tag"
    /\ Len(Candidates) >= 2
    /\ last.out.kind = "ok"
    /\ last.out.value.yb_suffix_version = <<1>>
    /\ \E i \in 1..Len(Candidates) :
           int(Candidates[i].timestamp) > int(last.out.value.timestamp)

\* C2: whenever two or more filtered candidates share the maximum version key,
\* get_parsed_tag returns no entry: it fails with the ambiguity error, and that
\* error lists all the tied candidates.
C2_TieIsAmbiguityError ==
    (last.op = "get_parsed_tag" /\ \E i \in 1..Len(Candidates) : TiedAtMaximum(i)) =>
        /\ last.out.kind = "ValueError"
        /\ last.out.value.error_msg = "Multiple packages found for"
        /\ \A i \in 1..Len(Candidates) :
               TiedAtMaximum(i) =>
                   \E k \in 1..Len(last.out.value.listed) :
                       last.out.value.listed[k] = Candidates[i].tag

\* Two candidates that differ only in the commit prefix made the lookup fail.
C2_Witness ==
    /\ last.op = "get_parsed_tag"
    /\ last.out.kind = "ValueError"
    /\ last.out.value.error_msg = "Multiple packages found for"
    /\ \E i, j \in 1..Len(Candidates) :
           /\ TiedAtMaximum(i)
           /\ Key(Candidates[i]) = Key(Candidates[j])
           /\ Candidates[i].sha1_prefix # Candidates[j].sha1_prefix

\* The catalog a lookup works on: the singleton as get_instance hands it over
CatalogSeen == get_instance(_instance, tags_file).instance.obj

\* C3: when filtering the catalog by the request leaves no candidate,
\* get_parsed_tag and get_llvm_url return nothing and fail with the
\* no-matching-release error, whose message holds the requested major version,
\* OS/version and architecture; the lookup leaves the catalog singleton as it was
\* (as the load made it, when the lookup was the first use of the catalog).
C3_NoMatchIsError ==
    [][(/\ last'.op \in {"get_parsed_tag", "get_llvm_url"}
        /\ filter(CatalogSeen, last'.arg, installer.given[1],
                  installer.given[2]).result.parsed_tags = <<>>)
           => /\ last'.out.kind = "ValueError"
              /\ last'.out.value.error_msg = "Could not find an LLVM release for"
              /\ last'.out.value.criteria.major_llvm_version = last'.arg
              /\ last'.out.value.criteria.short_os_name_and_version = installer.given[1]
              /\ last'.out.value.criteria.architecture = installer.given[2]
              /\ _instance'.obj = CatalogSeen
              /\ _instance.serial # 0 => _instance' = _instance]_vars

\* A lookup in a catalog that has entries, none for the request, has failed.
C3_Witness ==
    /\ last.op = "get_llvm_url"
    /\ last.out.kind = "ValueError"
    /\ last.out.value.error_msg = "Could not find an LLVM release for"
    /\ last.out.value.criteria.architecture = aarch64
    /\ _instance.serial = 1
    /\ _instance.obj.parsed_tags # <<>>

\* C4: filter returns a new collection holding exactly those entries of the
\* receiver whose integer major version equals the requested one, whose OS/version
\* the compatibility oracle accepts for the requested OS and whose architecture
\* equals the requested one, in the receiver's order, and leaves the receiver's
\* entries unchanged.
C4_FilterIsExact ==
    [][(last'.op = "filter" /\ last'.out.kind = "ok")
           => /\ last'.out.value.parsed_tags =
                     SelectSeq(CatalogSeen.parsed_tags,
                               LAMBDA entry :
                                   /\ entry.major_version = last'.arg
                                   /\ <<entry.short_os_name_and_version,
                                        installer.given[1]>> \in os_compat
                                   /\ entry.architecture = installer.given[2])
              /\ _instance'.obj.parsed_tags = CatalogSeen.parsed_tags]_vars

(***************************************************************************)
(* Claims about the URL builder, under SpecUrl                             *)
(***************************************************************************)
\* s with a trailing '/' stripped
WithoutTrailingSlash(s) ==
    IF Len(s) >= 1 /\ s[Len(s)] = "/" THEN SubSeq(s, 1, Len(s) - 1) ELSE s

\* base + '/' + tag + '/' + namePrefix + tag + nameSuffix
Concatenation(base, tag, namePrefix, nameSuffix) ==
    base \o <<"/">> \o tag \o <<"/">> \o namePrefix \o tag \o nameSuffix

\* The argument the installer works with: the given one unless it is absent or
\* the empty string
Effective(given, default) == IF given \in {None, <<>>} THEN default ELSE given

\* C9 as stated: for every tag, base URL prefix, name prefix and name suffix given
\* to an LlvmInstaller, get_url_for_tag(tag) is base + '/' + tag + '/' + namePrefix
\* + tag + nameSuffix, where base is the given base URL prefix with a trailing '/'
\* stripped and namePrefix and nameSuffix are the given strings.
C9_UrlOfGivenStrings ==
    (/\ last.op = "get_url_for_tag"
     /\ installer.given[3] # None /\ installer.given[4] # None /\ installer.given[5] # None)
        => last.out.value = Concatenation(WithoutTrailingSlash(installer.given[3]),
                                          last.arg, installer.given[4], installer.given[5])

\* C9 as amended: get_url_for_tag(tag) is base + '/' + tag + '/' + namePrefix + tag
\* + nameSuffix, where base is the base URL prefix with one trailing '/' stripped if
\* there is one, and the base URL prefix, namePrefix and nameSuffix are the given
\* strings when these are non-empty and the defaults when they are absent or empty.
C9_UrlOfEffectiveStrings ==
    last.op = "get_url_for_tag" =>
        /\ last.out.kind = "ok"
        /\ last.out.value =
               Concatenation(
                   WithoutTrailingSlash(
                       Effective(installer.given[3],
                                 <<"h", "t", "t", "p", "s", ":", "/", "/", "g", "i", "t",
                                   "h", "u", "b", ".", "c", "o", "m", "/", "y", "u", "g",
                                   "a", "b", "y", "t", "e", "/", "b", "u", "i", "l", "d",
                                   "-", "c", "l", "a", "n", "g", "/", "r", "e", "l", "e",
                                   "a", "s", "e", "s", "/", "d", "o", "w", "n", "l", "o",
                                   "a", "d">>)),
                   last.arg,
                   Effective(installer.given[4], <<"y", "b", "-", "l", "l", "v", "m", "-">>),
                   Effective(installer.given[5], <<".", "t", "a", "r", ".", "g", "z">>))

\* A URL was built from a base that ends in '/', a name prefix and a name suffix,
\* all given and non-empty.
C9_Witness ==
    /\ last.op = "get_url_for_tag"
    /\ installer.given[3] = <<"h", "/">>
    /\ installer.given[4] = <<"p", "-">>
    /\ installer.given[5] = <<".", "z", "i", "p">>
    /\ last.out.value = <<"h", "/">> \o last.arg \o <<"/", "p", "-">> \o last.arg
                            \o <<".", "z", "i", "p">>

(***************************************************************************)
(* Claims about the catalog singleton, under SpecSingleton                 *)
(***************************************************************************)
\* The calls that have returned an instance: <<thread, call number>>
ReturnedCalls ==
    {call \in Threads \X (1..MaxCalls) :
         call[2] <= Len(ret[call[1]]) /\ ret[call[1]][call[2]].kind = "ok"}

\* C10: for every interleaving of get_instance calls made by one or more threads,
\* the dataset is read and the catalog constructed at most once, and every call
\* that returns hands back that same single instance; a load that fails on a
\* malformed dataset leaves the singleton unset.
C10_OneInstance ==
    /\ _instance.serial <= 1
    /\ load_parsed_tags(tags_file.parsed_tags).kind = "ok" => loads <= 1
    /\ \A c1, c2 \in ReturnedCalls :
           ret[c1[1]][c1[2]].serial = ret[c2[1]][c2[2]].serial
    /\ load_parsed_tags(tags_file.parsed_tags).kind # "ok" => _instance.serial = 0

(***************************************************************************)
(* Claims about install(), under SpecInstall                               *)
(***************************************************************************)
\* download, then extract, then write the marker
InstallOrder == <<"download", "extract", "flag">>

IsPrefix(s, t) == Len(s) <= Len(t) /\ s = SubSeq(t, 1, Len(s))

\* The run has made its decision at the marker check
PastCheck(r) == r.outcome # "none" /\ r.pc # "check"

\* C11: an install run with once=True that finds the completion marker in the
\* target install directory performs no download, no extraction and no marker
\* write and returns normally; a run with once=True that does not find the marker,
\* and every run with once=False, proceeds to download, then extract, then write
\* the marker, in that order.
C11_OnceSkipsElseInstalls ==
    [][/\ (PastCheck(run') /\ run'.once /\ run'.found) =>
              /\ run'.pc = "idle" /\ run'.outcome = "returned" /\ run'.steps = <<>>
              /\ UNCHANGED <<flag_file, extraction, downloads>>
       /\ (PastCheck(run') /\ ~(run'.once /\ run'.found)) =>
              /\ IsPrefix(run'.steps, InstallOrder)
              /\ run'.pc = "idle" => run'.steps # <<>>
              /\ run'.outcome = "returned" => run'.steps = InstallOrder
       /\ downloads' \ downloads # {} =>
              run'.steps = Append(run.steps, "download")
       /\ extraction' # extraction /\ extraction'[run.install_dir] = "in progress" =>
              run'.steps = Append(run.steps, "extract")
       /\ flag_file' # flag_file =>
              run'.steps = Append(run.steps, "flag")]_vars

\* A run with once=True found the marker an earlier run wrote and returned without
\* a download, an extraction or a marker write.
C11_Witness ==
    /\ run.pc = "idle"
    /\ run.once /\ run.found
    /\ run.outcome = "returned"
    /\ run.steps = <<>>
    /\ flag_file[run.install_dir]
    /\ extraction[run.install_dir] = "finished"

\* C12: across any sequence of install runs into the same target directory, with
\* or without once, in which any run may fail during download or extraction, the
\* completion marker exists in that directory only in states where the most recent
\* extraction into it has finished successfully: it is never present while an
\* extraction is in progress or after one has failed.
C12_MarkerOnlyAfterFinishedExtraction ==
    \A install_dir \in DOMAIN flag_file :
        flag_file[install_dir] => extraction[install_dir] = "finished"

====
